---- MODULE Spec2Model ----
(***************************************************************************)
(* Keylinx API gateway (src/server.js): four HTTP handlers over an         *)
(* on-chain key registry, and the RSA key codec between the JSON form      *)
(* {n, e} and the DER bytes of a SubjectPublicKeyInfo.                     *)
(*                                                                         *)
(* Strings are sequences of one-character strings, bytes are 0..255.       *)
(* A JS number is [m, z], the integer m * 10^z; z > 0 is used only for     *)
(* values of at least 10^21, which Number.prototype.toString renders in    *)
(* exponent notation.                                                      *)
(***************************************************************************)
EXTENDS Integers, Sequences, FiniteSets, TLC

\* Longest modulus string drawn by the codec specification.
MaxLen == 3

\* Number.prototype.toString renders an integer of more than this many
\* digits in exponent notation (jsonKey.e.toString(), server.js line 22).
ExpDigits == 21

-----------------------------------------------------------------------------
\* Characters and numbers

HexChars == <<"0", "1", "2", "3", "4", "5", "6", "7", "8", "9",
              "a", "b", "c", "d", "e", "f">>

\* jsbn's intAt: the value of a character as a digit, -1 when it is none
\* ("+", "." and the like). A letter counts as a digit of value 10 and up
\* whatever the radix; of the letters only a..f occur in this model.
IntAt(c) ==
    IF \E i \in 1..16 : HexChars[i] = c
    THEN (CHOOSE i \in 1..16 : HexChars[i] = c) - 1
    ELSE -1

RECURSIVE NatToRadix(_, _)
\* BigInteger.prototype.toString(b) of a non-negative integer.
NatToRadix(v, b) ==
    IF v < b THEN <<HexChars[v + 1]>>
    ELSE Append(NatToRadix(v \div b, b), HexChars[(v % b) + 1])

RECURSIVE Zeros(_)
Zeros(k) == IF k = 0 THEN <<>> ELSE <<"0">> \o Zeros(k - 1)

\* Number.prototype.toString() of the non-negative integer num.m * 10^num.z.
NumberToString(num) ==
    LET ds == NatToRadix(num.m, 10)
        k  == Len(ds)
        nn == k + num.z
    IN  IF num.m = 0 THEN <<"0">>
        ELSE IF nn <= ExpDigits THEN ds \o Zeros(num.z)
        ELSE IF k = 1 THEN ds \o <<"e", "+">> \o NatToRadix(nn - 1, 10)
        ELSE <<ds[1], ".">> \o SubSeq(ds, 2, k) \o <<"e", "+">>
             \o NatToRadix(nn - 1, 10)

RECURSIVE FromRadix(_, _, _)
\* jsbn's fromRadix / fromString for a string without a sign: characters
\* that are no digit are skipped, every other one is accumulated as
\* w = b*w + x without a check that x < b.
FromRadix(s, b, w) ==
    IF s = <<>> THEN w
    ELSE IF IntAt(Head(s)) < 0 THEN FromRadix(Tail(s), b, w)
    ELSE FromRadix(Tail(s), b, b * w + IntAt(Head(s)))

\* new forge.jsbn.BigInteger(str): radix 10 when none is given.
BigInteger(s) == FromRadix(s, 10, 0)

\* new forge.jsbn.BigInteger(hex, 16)
BigIntegerHex(s) == FromRadix(s, 16, 0)

\* parseInt(str) of a string of decimal digits, as a JS number.
ParseInt(s) == [m |-> FromRadix(s, 10, 0), z |-> 0]

-----------------------------------------------------------------------------
\* Bytes and DER

RECURSIVE HexToBytes(_)
\* forge.util.hexToBytes: an odd-length string has its first digit alone.
HexToBytes(hex) ==
    IF hex = <<>> THEN <<>>
    ELSE IF Len(hex) % 2 = 1
         THEN <<IntAt(hex[1])>> \o HexToBytes(Tail(hex))
         ELSE <<16 * IntAt(hex[1]) + IntAt(hex[2])>>
              \o HexToBytes(SubSeq(hex, 3, Len(hex)))

RECURSIVE BytesToHex(_)
\* ByteBuffer.toHex: two digits per byte.
BytesToHex(bytes) ==
    IF bytes = <<>> THEN <<>>
    ELSE <<HexChars[(Head(bytes) \div 16) + 1], HexChars[(Head(bytes) % 16) + 1]>>
         \o BytesToHex(Tail(bytes))

\* forge's _bnToBytes: the minimal two's-complement bytes of an integer.
BnToBytes(v) ==
    LET hex0  == NatToRadix(v, 16)
        hex   == IF IntAt(hex0[1]) >= 8 THEN <<"0", "0">> \o hex0 ELSE hex0
        bytes == HexToBytes(hex)
    IN  IF Len(bytes) > 1 /\ bytes[1] = 0 /\ bytes[2] < 128
        THEN Tail(bytes)
        ELSE bytes

RECURSIVE NatToBytes(_)
NatToBytes(v) ==
    IF v < 256 THEN <<v>> ELSE Append(NatToBytes(v \div 256), v % 256)

\* The DER length octets.
DerLength(len) ==
    IF len < 128 THEN <<len>>
    ELSE <<128 + Len(NatToBytes(len))>> \o NatToBytes(len)

\* forge.asn1.toDer of one node: tag, length, contents.
Tlv(tag, contents) == <<tag>> \o DerLength(Len(contents)) \o contents

\* AlgorithmIdentifier { rsaEncryption 1.2.840.113549.1.1.1, NULL }
RsaAlgorithmId ==
    Tlv(48, Tlv(6, <<42, 134, 72, 134, 247, 13, 1, 1, 1>>) \o Tlv(5, <<>>))

\* forge.pki.publicKeyToAsn1 then forge.asn1.toDer: SubjectPublicKeyInfo
\* with the RSAPublicKey SEQUENCE { INTEGER n, INTEGER e } in a BIT STRING.
PublicKeyToDer(n, e) ==
    LET rsaPublicKey == Tlv(48, Tlv(2, BnToBytes(n)) \o Tlv(2, BnToBytes(e)))
    IN  Tlv(48, RsaAlgorithmId \o Tlv(3, <<0>> \o rsaPublicKey))

-----------------------------------------------------------------------------
\* DER decoding

RECURSIVE BytesToNat(_, _)
BytesToNat(bytes, acc) ==
    IF bytes = <<>> THEN acc ELSE BytesToNat(Tail(bytes), 256 * acc + Head(bytes))

NoTlv == [ok |-> FALSE, tag |-> 0, val |-> <<>>, rest |-> <<>>]

\* forge.asn1.fromDer of the first node of bytes: tag, length, contents.
ReadTlv(bytes) ==
    IF Len(bytes) < 2 THEN NoTlv
    ELSE LET long == bytes[2] >= 128
             k    == IF long THEN bytes[2] - 128 ELSE 0
         IN  IF Len(bytes) < 2 + k \/ (long /\ k = 0) THEN NoTlv
             ELSE LET len == IF long THEN BytesToNat(SubSeq(bytes, 3, 2 + k), 0)
                                     ELSE bytes[2]
                  IN  IF Len(bytes) < 2 + k + len THEN NoTlv
                      ELSE [ok   |-> TRUE,
                            tag  |-> bytes[1],
                            val  |-> SubSeq(bytes, 3 + k, 2 + k + len),
                            rest |-> SubSeq(bytes, 3 + k + len, Len(bytes))]

RECURSIVE Children(_)
\* The nodes of a constructed value; <<NoTlv>> when one does not parse.
Children(bytes) ==
    IF bytes = <<>> THEN <<>>
    ELSE LET t == ReadTlv(bytes)
         IN  IF ~t.ok THEN <<NoTlv>>
             ELSE LET more == Children(t.rest)
                  IN  IF more # <<>> /\ ~more[1].ok THEN <<NoTlv>>
                      ELSE <<t>> \o more

NoKeyInts == [ok |-> FALSE, n |-> 0, e |-> 0]

\* rsaPublicKeyValidator: SEQUENCE { INTEGER modulus, INTEGER exponent },
\* read as forge.pki.publicKeyFromAsn1 reads it: the bytes as hexadecimal.
RsaPublicKeyFromTlv(t) ==
    LET kids == Children(t.val)
    IN  IF t.ok /\ t.tag = 48 /\ Len(kids) = 2
           /\ kids[1].ok /\ kids[1].tag = 2 /\ kids[2].tag = 2
        THEN [ok |-> TRUE,
              n  |-> BigIntegerHex(BytesToHex(kids[1].val)),
              e  |-> BigIntegerHex(BytesToHex(kids[2].val))]
        ELSE NoKeyInts

\* forge.asn1.fromDer then forge.pki.publicKeyFromAsn1: a
\* SubjectPublicKeyInfo whose algorithm is rsaEncryption, or a bare
\* RSAPublicKey; anything else throws.
DerToPublicKey(bytes) ==
    LET top  == ReadTlv(bytes)
        kids == Children(top.val)
        spki == /\ top.tag = 48 /\ Len(kids) = 2 /\ kids[1].ok
                /\ kids[1].tag = 48 /\ kids[2].tag = 3
                /\ Children(kids[1].val) # <<>>
                /\ Children(kids[1].val)[1].ok
                /\ Children(kids[1].val)[1].tag = 6
                /\ Len(kids[2].val) >= 1 /\ kids[2].val[1] = 0
    IN  IF ~top.ok \/ top.rest # <<>> THEN NoKeyInts
        ELSE IF spki
             THEN IF Children(kids[1].val)[1].val
                        # <<42, 134, 72, 134, 247, 13, 1, 1, 1>>
                  THEN NoKeyInts
                  ELSE LET inner == ReadTlv(Tail(kids[2].val))
                       IN  IF inner.rest # <<>> THEN NoKeyInts
                           ELSE RsaPublicKeyFromTlv(inner)
             ELSE RsaPublicKeyFromTlv(top)

-----------------------------------------------------------------------------
\* The key codec (server.js lines 19-38)

\* value.toString() throws a TypeError when value is undefined, or an
\* object whose own "toString" is no function.
ToStringThrows(v) == v.t \in {"undefined", "object"}

\* Utility: JSON -> DER bytes
rsaJsonToDerBytes(jsonKey) ==
    IF jsonKey.t = "undefined"
    THEN [ok |-> FALSE, bytes |-> <<>>,
          error |-> "Cannot read properties of undefined (reading 'n')"]
    ELSE IF ToStringThrows(jsonKey.n)
    THEN [ok |-> FALSE, bytes |-> <<>>,
          error |-> "jsonKey.n.toString is not a function"]
    ELSE IF ToStringThrows(jsonKey.e)
    THEN [ok |-> FALSE, bytes |-> <<>>,
          error |-> "jsonKey.e.toString is not a function"]
    ELSE LET n == BigInteger(jsonKey.n.s)
             e == BigInteger(NumberToString(jsonKey.e))
         IN  [ok |-> TRUE, bytes |-> PublicKeyToDer(n, e), error |-> ""]

NoJsonKey == [n |-> <<>>, e |-> [m |-> 0, z |-> 0]]

\* Utility: DER bytes -> JSON
derBytesToRsaJson(buffer) ==
    LET publicKey == DerToPublicKey(buffer)
    IN  IF ~publicKey.ok
        THEN [ok |-> FALSE, key |-> NoJsonKey,
              error |-> "Cannot read public key."]
        ELSE [ok    |-> TRUE,
              key   |-> [n |-> NatToRadix(publicKey.n, 10),
                         e |-> ParseInt(NatToRadix(publicKey.e, 10))],
              error |-> ""]

-----------------------------------------------------------------------------
\* Requests

Procs == {"r1", "r2"}

UserIds == {"alice", "bob"}

Str(s) == [t |-> "string", s |-> s]

Num(m, z) == [t |-> "number", m |-> m, z |-> z]

\* A property the JSON body does not have.
UndefinedStr == [t |-> "undefined", s |-> <<>>]

UndefinedNum == [t |-> "undefined", m |-> 0, z |-> 0]

\* {"toString": 1}: an object whose toString() call throws.
NoToString == [t |-> "object", s |-> <<>>]

Key(n, e) == [t |-> "object", n |-> n, e |-> e]

UndefinedKey == [t |-> "undefined", n |-> UndefinedStr, e |-> UndefinedNum]

UserId(id) == [t |-> "string", id |-> id]

UndefinedId == [t |-> "undefined", id |-> ""]

KeyA == Key(Str(<<"3", "2", "3">>), Num(65537, 0))

KeyB == Key(Str(<<"1", "4", "3">>), Num(65537, 0))

\* A modulus with a leading zero.
KeyZ == Key(Str(<<"0", "7">>), Num(3, 0))

\* An exponent of 10^21.
KeyH == Key(Str(<<"1", "5">>), Num(1, ExpDigits))

\* Keys that pass the field check and make the codec throw.
ThrowingKeys == { Key(NoToString, Num(3, 0)) }

\* Keys the field check rejects: no publicKey, no n, n: "", no e, e: 0.
FalsyKeys ==
    { UndefinedKey,
      Key(UndefinedStr, Num(3, 0)),
      Key(Str(<<>>), Num(3, 0)),
      Key(Str(<<"7">>), UndefinedNum),
      Key(Str(<<"7">>), Num(0, 0)) }

\* The bodies of the concurrent specification.
Bodies ==
    [userId : {UserId("alice")}, publicKey : {KeyA, KeyB} \cup ThrowingKeys]
    \cup [userId : {UserId("bob")}, publicKey : {KeyB}]
    \cup [userId : {UserId("alice")},
          publicKey : {Key(UndefinedStr, Num(3, 0)),
                       Key(Str(<<"7">>), UndefinedNum)}]
    \cup [userId : {UndefinedId}, publicKey : {KeyA}]

\* The bodies of the one-request-at-a-time specification.
SeqBodies ==
    [userId : {UserId(id) : id \in UserIds},
     publicKey : {KeyA, KeyB, KeyZ} \cup ThrowingKeys]
    \cup [userId : {UserId("alice")}, publicKey : FalsyKeys]
    \cup [userId : {UndefinedId, UserId("")}, publicKey : {KeyA}]

\* There the key with the exponent of 10^21 arrives by Update.
SeqUpdates ==
    SeqBodies \cup [userId : {UserId(id) : id \in UserIds}, publicKey : {KeyH}]

\* JS truthiness of a body property.
Truthy(v) ==
    /\ v.t # "undefined"
    /\ ~(v.t = "string" /\ v.s = <<>>)
    /\ ~(v.t = "number" /\ v.m = 0)

\* The field check without its test of publicKey.e.
MissingFields_noE(body) ==
    \/ body.userId.t = "undefined" \/ body.userId.id = ""
    \/ body.publicKey.t = "undefined"
    \/ ~Truthy(body.publicKey.n)

\* !userId || !publicKey?.n || !publicKey?.e   (lines 75 and 171)
MissingFields(body) ==
    \/ body.userId.t = "undefined" \/ body.userId.id = ""
    \/ body.publicKey.t = "undefined"
    \/ ~Truthy(body.publicKey.n)
    \/ ~Truthy(body.publicKey.e)

\* The JSON form {n, e} of a submitted key.
ToJson(key) == [n |-> key.n.s, e |-> [m |-> key.e.m, z |-> key.e.z]]

\* rsaJsonToDerBytes on every key that reaches it, computed once.
Encoded ==
    [k \in {KeyA, KeyB, KeyZ, KeyH} \cup ThrowingKeys \cup FalsyKeys
        |-> rsaJsonToDerBytes(k)]

-----------------------------------------------------------------------------
\* State

VARIABLES
    registry,        \* the contract: userId -> [reg, bytes]
    pc,              \* per request: the call it awaits, "idle" or "done"
    req,             \* per request: [op, userId, publicKey]
    publicKeyBytes,  \* per request: the handler's local publicKeyBytes
    calls,           \* per request: the codec and contract calls made
    returned,        \* per request: the calls that returned normally
    thrown,          \* per request: [call, message] of the call that threw
    res,             \* per request: the responses sent
    lastOK,          \* history: per id, the last write answered with 200
    cpc, cKey, cDer, cOut   \* the codec on its own

codecVars == <<cpc, cKey, cDer, cOut>>

vars == <<registry, pc, req, publicKeyBytes, calls, returned, thrown, res,
          lastOK, cpc, cKey, cDer, cOut>>

Unregistered == [reg |-> FALSE, bytes |-> <<>>]

NoReq == [op |-> "none", userId |-> UndefinedId, publicKey |-> UndefinedKey]

NoThrow == [call |-> "", message |-> ""]

NoLast == [present |-> FALSE, key |-> UndefinedKey]

Response(status, error, message, publicKey) ==
    [status |-> status, error |-> error, message |-> message,
     publicKey |-> publicKey]

HandlersIdle ==
    /\ registry = [id \in UserIds |-> Unregistered]
    /\ pc = [p \in Procs |-> "idle"]
    /\ req = [p \in Procs |-> NoReq]
    /\ publicKeyBytes = [p \in Procs |-> <<>>]
    /\ calls = [p \in Procs |-> <<>>]
    /\ returned = [p \in Procs |-> <<>>]
    /\ thrown = [p \in Procs |-> NoThrow]
    /\ res = [p \in Procs |-> <<>>]
    /\ lastOK = [id \in UserIds |-> NoLast]

CodecOff ==
    /\ cpc = "off"
    /\ cKey = KeyA
    /\ cDer = <<>>
    /\ cOut = [ok |-> FALSE, key |-> NoJsonKey, error |-> ""]

Init == HandlersIdle /\ CodecOff

-----------------------------------------------------------------------------
\* The contract, reached through ethers

\* The message of the error a rejected contract call carries.
ErrorMessage(call) ==
    CASE call = "isUserRegistered" -> "could not detect network"
      [] call = "getPublicKey"     -> "missing revert data"
      [] call = "wait"             -> "transaction execution reverted"
      [] OTHER                     -> "insufficient funds"

\* contract.isUserRegistered(userId)
IsUserRegistered(id) == registry[id].reg

\* contract.getPublicKey(userId): the stored bytes as a "0x..." string.
GetPublicKey(id) == <<"0", "x">> \o BytesToHex(registry[id].bytes)

\* The contract's map once a confirmed transaction has been applied.
Applied(op, id, bytes) ==
    [registry EXCEPT ![id] = IF op = "delete" THEN Unregistered
                             ELSE [reg |-> TRUE, bytes |-> bytes]]

-----------------------------------------------------------------------------
\* Handler steps. A handler runs from one await to the next in one step.

Free(p) == pc[p] \in {"idle", "done"}

\* A request reaches its handler: the handler's locals are fresh.
Accept(p, op, userId, publicKey) ==
    /\ Free(p)
    /\ req' = [req EXCEPT ![p] = [op |-> op, userId |-> userId,
                                  publicKey |-> publicKey]]
    /\ returned' = [returned EXCEPT ![p] = <<>>]
    /\ UNCHANGED <<registry, lastOK, codecVars>>

\* res.status(status).json(body), ending the request.
Send(p, sofar, response) ==
    /\ res' = [res EXCEPT ![p] = Append(sofar, response)]
    /\ pc' = [pc EXCEPT ![p] = "done"]

\* A catch block that answers with a fixed message, not the error's.
Catch_generic(p, sofar, call, message) ==
    /\ thrown' = [thrown EXCEPT ![p] = [call |-> call, message |-> message]]
    /\ Send(p, sofar, Response(500, "Internal Server Error", "", NoJsonKey))

\* catch (error) { res.status(500).json({ error: error.message }) }
Catch(p, sofar, call, message) ==
    /\ thrown' = [thrown EXCEPT ![p] = [call |-> call, message |-> message]]
    /\ Send(p, sofar, Response(500, message, "", NoJsonKey))

\* await contract.<call>(...): the call is made and the handler suspends.
Await(p, sofar, call) ==
    /\ calls' = [calls EXCEPT ![p] = Append(sofar, call)]
    /\ pc' = [pc EXCEPT ![p] = call]

\* The awaited call of request p, which is in handler op, settles.
Settles(p, op, call) ==
    /\ pc[p] = call
    /\ req[p].op = op
    /\ UNCHANGED <<req, codecVars>>

Returned(p, call) == returned' = [returned EXCEPT ![p] = Append(@, call)]

\* A handler that issues the rejected call again.
Rejects_retry(p) ==
    /\ calls' = [calls EXCEPT ![p] = Append(@, pc[p])]
    /\ UNCHANGED <<registry, pc, publicKeyBytes, returned, thrown, res, lastOK>>

\* The awaited contract call rejects.
Rejects(p) ==
    /\ Catch(p, res[p], pc[p], ErrorMessage(pc[p]))
    /\ UNCHANGED <<registry, publicKeyBytes, calls, returned, lastOK>>

\* tx.wait() resolves: the transaction is in the contract's state, and the
\* handler answers 200.
Confirmed(p, op, message) ==
    /\ Returned(p, "wait")
    /\ registry' = Applied(op, req[p].userId.id, publicKeyBytes[p])
    /\ Send(p, res[p], Response(200, "", message, NoJsonKey))
    /\ lastOK' = [lastOK EXCEPT ![req[p].userId.id] =
                     IF op = "delete" THEN NoLast
                     ELSE [present |-> TRUE, key |-> req[p].publicKey]]
    /\ UNCHANGED <<publicKeyBytes, calls, thrown>>

\* ---- POST /registerUser (lines 72-94)

\* A Register that checks the registry before it encodes the key.
registerUser_checkFirst(p, body) ==
    /\ Accept(p, "register", body.userId, body.publicKey)
    /\ thrown' = [thrown EXCEPT ![p] = NoThrow]
    /\ IF MissingFields(body)
       THEN /\ Send(p, <<>>, Response(400, "userId and publicKey are required",
                                      "", NoJsonKey))
            /\ calls' = [calls EXCEPT ![p] = <<>>]
            /\ publicKeyBytes' = [publicKeyBytes EXCEPT ![p] = <<>>]
       ELSE /\ publicKeyBytes' =
                   [publicKeyBytes EXCEPT ![p] = Encoded[body.publicKey].bytes]
            /\ Await(p, <<>>, "isUserRegistered")
            /\ res' = [res EXCEPT ![p] = <<>>]

registerUser(p, body) ==
    /\ Accept(p, "register", body.userId, body.publicKey)
    /\ IF MissingFields(body)
       THEN /\ Send(p, <<>>, Response(400, "userId and publicKey are required",
                                      "", NoJsonKey))
            /\ calls' = [calls EXCEPT ![p] = <<>>]
            /\ thrown' = [thrown EXCEPT ![p] = NoThrow]
            /\ publicKeyBytes' = [publicKeyBytes EXCEPT ![p] = <<>>]
       ELSE IF ~Encoded[body.publicKey].ok
            THEN /\ calls' = [calls EXCEPT ![p] = <<"rsaJsonToDerBytes">>]
                 /\ Catch(p, <<>>, "rsaJsonToDerBytes",
                          Encoded[body.publicKey].error)
                 /\ publicKeyBytes' = [publicKeyBytes EXCEPT ![p] = <<>>]
            ELSE /\ publicKeyBytes' =
                        [publicKeyBytes EXCEPT ![p] = Encoded[body.publicKey].bytes]
                 /\ Await(p, <<"rsaJsonToDerBytes">>, "isUserRegistered")
                 /\ thrown' = [thrown EXCEPT ![p] = NoThrow]
                 /\ res' = [res EXCEPT ![p] = <<>>]

\* A Register that writes whatever the existence check returned.
registerUserChecked_unchecked(p) ==
    /\ Settles(p, "register", "isUserRegistered")
    /\ \/ Rejects(p)
       \/ /\ Returned(p, "isUserRegistered")
          /\ Await(p, calls[p], "setPublicKey")
          /\ UNCHANGED <<registry, publicKeyBytes, thrown, res, lastOK>>

\* A Register that holds a per-id lock: it does not pass the existence
\* check while another Register of the id is between check and commit.
registerUserChecked_locked(p) ==
    /\ Settles(p, "register", "isUserRegistered")
    /\ \/ Rejects(p)
       \/ /\ IsUserRegistered(req[p].userId.id)
          /\ Returned(p, "isUserRegistered")
          /\ Send(p, res[p], Response(400, "User ID is already registered",
                                      "", NoJsonKey))
          /\ UNCHANGED <<registry, publicKeyBytes, calls, thrown, lastOK>>
       \/ /\ ~IsUserRegistered(req[p].userId.id)
          /\ ~\E q \in Procs \ {p} :
                /\ req[q].op = "register"
                /\ req[q].userId.id = req[p].userId.id
                /\ pc[q] \in {"setPublicKey", "wait"}
          /\ Returned(p, "isUserRegistered")
          /\ Await(p, calls[p], "setPublicKey")
          /\ UNCHANGED <<registry, publicKeyBytes, thrown, res, lastOK>>

registerUserChecked(p) ==
    /\ Settles(p, "register", "isUserRegistered")
    /\ \/ Rejects(p)
       \/ /\ IsUserRegistered(req[p].userId.id)
          /\ Returned(p, "isUserRegistered")
          /\ Send(p, res[p], Response(400, "User ID is already registered",
                                      "", NoJsonKey))
          /\ UNCHANGED <<registry, publicKeyBytes, calls, thrown, lastOK>>
       \/ /\ ~IsUserRegistered(req[p].userId.id)
          /\ Returned(p, "isUserRegistered")
          /\ Await(p, calls[p], "setPublicKey")
          /\ UNCHANGED <<registry, publicKeyBytes, thrown, res, lastOK>>

\* A Register that answers 200 on submission, without awaiting tx.wait().
registerUserSubmitted_noWait(p) ==
    /\ Settles(p, "register", "setPublicKey")
    /\ \/ Rejects(p)
       \/ /\ Returned(p, "setPublicKey")
          /\ Send(p, res[p], Response(200, "", "User registered successfully",
                                      NoJsonKey))
          /\ UNCHANGED <<registry, publicKeyBytes, calls, thrown, lastOK>>

registerUserSubmitted(p) ==
    /\ Settles(p, "register", "setPublicKey")
    /\ \/ Rejects(p)
       \/ /\ Returned(p, "setPublicKey")
          /\ Await(p, calls[p], "wait")
          /\ UNCHANGED <<registry, publicKeyBytes, thrown, res, lastOK>>

registerUserConfirmed(p) ==
    /\ Settles(p, "register", "wait")
    /\ \/ Rejects(p)
       \/ Confirmed(p, "register", "User registered successfully")

\* ---- GET /getUser/:userId (lines 116-132)

RECURSIVE BufferFromHex(_)
\* Buffer.from(str, 'hex')
BufferFromHex(hex) ==
    IF Len(hex) < 2 \/ IntAt(hex[1]) < 0 \/ IntAt(hex[2]) < 0 THEN <<>>
    ELSE <<16 * IntAt(hex[1]) + IntAt(hex[2])>>
         \o BufferFromHex(SubSeq(hex, 3, Len(hex)))

getUser(p, id) ==
    /\ Accept(p, "get", UserId(id), UndefinedKey)
    /\ Await(p, <<>>, "isUserRegistered")
    /\ thrown' = [thrown EXCEPT ![p] = NoThrow]
    /\ res' = [res EXCEPT ![p] = <<>>]
    /\ publicKeyBytes' = [publicKeyBytes EXCEPT ![p] = <<>>]

getUserChecked(p) ==
    /\ Settles(p, "get", "isUserRegistered")
    /\ \/ Rejects(p)
       \/ /\ ~IsUserRegistered(req[p].userId.id)
          /\ Returned(p, "isUserRegistered")
          /\ Send(p, res[p], Response(404, "User not registered", "", NoJsonKey))
          /\ UNCHANGED <<registry, publicKeyBytes, calls, thrown, lastOK>>
       \/ /\ IsUserRegistered(req[p].userId.id)
          /\ Returned(p, "isUserRegistered")
          /\ Await(p, calls[p], "getPublicKey")
          /\ UNCHANGED <<registry, publicKeyBytes, thrown, res, lastOK>>

\* A Fetch that does not strip the "0x" before it reads the hex string.
getUserFetched_noSlice(p) ==
    /\ Settles(p, "get", "getPublicKey")
    /\ \/ Rejects(p)
       \/ LET hex     == GetPublicKey(req[p].userId.id)
              buffer  == BufferFromHex(hex)
              jsonKey == derBytesToRsaJson(buffer)
          IN  /\ Returned(p, "getPublicKey")
              /\ publicKeyBytes' = [publicKeyBytes EXCEPT ![p] = buffer]
              /\ calls' = [calls EXCEPT ![p] = Append(@, "derBytesToRsaJson")]
              /\ IF jsonKey.ok
                 THEN /\ Send(p, res[p], Response(200, "", "", jsonKey.key))
                      /\ UNCHANGED thrown
                 ELSE Catch(p, res[p], "derBytesToRsaJson", jsonKey.error)
              /\ UNCHANGED <<registry, lastOK>>

getUserFetched(p) ==
    /\ Settles(p, "get", "getPublicKey")
    /\ \/ Rejects(p)
       \/ LET hex     == GetPublicKey(req[p].userId.id)
              buffer  == BufferFromHex(SubSeq(hex, 3, Len(hex)))
              jsonKey == derBytesToRsaJson(buffer)
          IN  /\ Returned(p, "getPublicKey")
              /\ publicKeyBytes' = [publicKeyBytes EXCEPT ![p] = buffer]
              /\ calls' = [calls EXCEPT ![p] = Append(@, "derBytesToRsaJson")]
              /\ IF jsonKey.ok
                 THEN /\ Send(p, res[p], Response(200, "", "", jsonKey.key))
                      /\ UNCHANGED thrown
                 ELSE Catch(p, res[p], "derBytesToRsaJson", jsonKey.error)
              /\ UNCHANGED <<registry, lastOK>>

\* ---- POST /updateUser (lines 168-189)

updateUser(p, body) ==
    /\ Accept(p, "update", body.userId, body.publicKey)
    /\ thrown' = [thrown EXCEPT ![p] = NoThrow]
    /\ publicKeyBytes' = [publicKeyBytes EXCEPT ![p] = <<>>]
    /\ IF MissingFields(body)
       THEN /\ Send(p, <<>>, Response(400, "userId and publicKey are required",
                                      "", NoJsonKey))
            /\ calls' = [calls EXCEPT ![p] = <<>>]
       ELSE /\ Await(p, <<>>, "isUserRegistered")
            /\ res' = [res EXCEPT ![p] = <<>>]

\* An Update that writes whatever the existence check returned.
updateUserChecked_unchecked(p) ==
    /\ Settles(p, "update", "isUserRegistered")
    /\ Returned(p, "isUserRegistered")
    /\ publicKeyBytes' =
           [publicKeyBytes EXCEPT ![p] = Encoded[req[p].publicKey].bytes]
    /\ Await(p, Append(calls[p], "rsaJsonToDerBytes"), "updatePublicKey")
    /\ UNCHANGED <<registry, thrown, res, lastOK>>

updateUserChecked(p) ==
    /\ Settles(p, "update", "isUserRegistered")
    /\ \/ Rejects(p)
       \/ /\ ~IsUserRegistered(req[p].userId.id)
          /\ Returned(p, "isUserRegistered")
          /\ Send(p, res[p], Response(404, "User not Registered", "", NoJsonKey))
          /\ UNCHANGED <<registry, publicKeyBytes, calls, thrown, lastOK>>
       \/ /\ IsUserRegistered(req[p].userId.id)
          /\ Returned(p, "isUserRegistered")
          /\ IF ~Encoded[req[p].publicKey].ok
             THEN /\ calls' = [calls EXCEPT ![p] = Append(@, "rsaJsonToDerBytes")]
                  /\ Catch(p, res[p], "rsaJsonToDerBytes",
                           Encoded[req[p].publicKey].error)
                  /\ UNCHANGED publicKeyBytes
             ELSE /\ publicKeyBytes' =
                         [publicKeyBytes EXCEPT ![p] = Encoded[req[p].publicKey].bytes]
                  /\ Await(p, Append(calls[p], "rsaJsonToDerBytes"),
                           "updatePublicKey")
                  /\ UNCHANGED <<thrown, res>>
          /\ UNCHANGED <<registry, lastOK>>

updateUserSubmitted(p) ==
    /\ Settles(p, "update", "updatePublicKey")
    /\ \/ Rejects(p)
       \/ /\ Returned(p, "updatePublicKey")
          /\ Await(p, calls[p], "wait")
          /\ UNCHANGED <<registry, publicKeyBytes, thrown, res, lastOK>>

updateUserConfirmed(p) ==
    /\ Settles(p, "update", "wait")
    /\ \/ Rejects(p)
       \/ Confirmed(p, "update", "Public Key updated for User ID")

\* ---- DELETE /deleteUser/:userId (lines 211-227)

deleteUser(p, id) ==
    /\ Accept(p, "delete", UserId(id), UndefinedKey)
    /\ Await(p, <<>>, "isUserRegistered")
    /\ thrown' = [thrown EXCEPT ![p] = NoThrow]
    /\ res' = [res EXCEPT ![p] = <<>>]
    /\ publicKeyBytes' = [publicKeyBytes EXCEPT ![p] = <<>>]

deleteUserChecked(p) ==
    /\ Settles(p, "delete", "isUserRegistered")
    /\ \/ Rejects(p)
       \/ /\ ~IsUserRegistered(req[p].userId.id)
          /\ Returned(p, "isUserRegistered")
          /\ Send(p, res[p], Response(404, "User not Registered", "", NoJsonKey))
          /\ UNCHANGED <<registry, publicKeyBytes, calls, thrown, lastOK>>
       \/ /\ IsUserRegistered(req[p].userId.id)
          /\ Returned(p, "isUserRegistered")
          /\ Await(p, calls[p], "deletePublicKey")
          /\ UNCHANGED <<registry, publicKeyBytes, thrown, res, lastOK>>

deleteUserSubmitted(p) ==
    /\ Settles(p, "delete", "deletePublicKey")
    /\ \/ Rejects(p)
       \/ /\ Returned(p, "deletePublicKey")
          /\ Await(p, calls[p], "wait")
          /\ UNCHANGED <<registry, publicKeyBytes, thrown, res, lastOK>>

deleteUserConfirmed(p) ==
    /\ Settles(p, "delete", "wait")
    /\ \/ Rejects(p)
       \/ Confirmed(p, "delete", "deleted successfully")

-----------------------------------------------------------------------------
\* The gateway

Handle(p, bodies, updates) ==
    \/ \E body \in bodies : registerUser(p, body)
    \/ registerUserChecked(p)
    \/ registerUserSubmitted(p)
    \/ registerUserConfirmed(p)
    \/ \E id \in UserIds : getUser(p, id)
    \/ getUserChecked(p)
    \/ getUserFetched(p)
    \/ \E body \in updates : updateUser(p, body)
    \/ updateUserChecked(p)
    \/ updateUserSubmitted(p)
    \/ updateUserConfirmed(p)
    \/ \E id \in UserIds : deleteUser(p, id)
    \/ deleteUserChecked(p)
    \/ deleteUserSubmitted(p)
    \/ deleteUserConfirmed(p)

\* Requests served concurrently: each is its own task.
Next == \E p \in Procs : Handle(p, Bodies, Bodies)

Spec == Init /\ [][Next]_vars

\* Requests that do not overlap: one client, one request at a time.
SeqNext == Handle("r1", SeqBodies, SeqUpdates)

SeqSpec == Init /\ [][SeqNext]_vars

-----------------------------------------------------------------------------
\* The codec on its own: encode a key, decode the bytes.

Digits == {"0", "1", "2", "3", "4", "5", "6", "7", "8", "9"}

\* The modulus strings: every string of 1..MaxLen decimal digits.
Moduli == UNION {[1..k -> Digits] : k \in 1..MaxLen}

\* The exponents: small integers around the byte boundaries, the usual
\* 65537, and two integers from 10^21 up (10^21 and 1.5 * 10^21).
Exponents ==
    {Num(m, 0) : m \in {0, 1, 3, 17, 127, 128, 255, 256, 65537}}
    \cup {Num(1, ExpDigits), Num(15, ExpDigits - 1)}

CodecInit ==
    /\ HandlersIdle
    /\ cpc = "in"
    /\ cKey \in {Key(Str(n), e) : n \in Moduli, e \in Exponents}
    /\ cDer = <<>>
    /\ cOut = [ok |-> FALSE, key |-> NoJsonKey, error |-> ""]

HandlersUnchanged ==
    UNCHANGED <<registry, pc, req, publicKeyBytes, calls, returned, thrown,
                res, lastOK>>

Encode ==
    /\ cpc = "in"
    /\ rsaJsonToDerBytes(cKey).ok
    /\ cDer' = rsaJsonToDerBytes(cKey).bytes
    /\ cpc' = "der"
    /\ UNCHANGED <<cKey, cOut>>
    /\ HandlersUnchanged

Decode ==
    /\ cpc = "der"
    /\ cOut' = derBytesToRsaJson(cDer)
    /\ cpc' = "out"
    /\ UNCHANGED <<cKey, cDer>>
    /\ HandlersUnchanged

CodecNext == Encode \/ Decode

CodecSpec == CodecInit /\ [][CodecNext]_vars

\* A canonical decimal string: no leading zero, but "0" itself.
Canonical(n) == Len(n) >= 1 /\ (n[1] = "0" => Len(n) = 1)

\* The round trip is exact when n is canonical and e is below 10^21.
RoundTripBelowThreshold ==
    (cpc = "out" /\ Canonical(cKey.n.s) /\ cKey.e.z = 0)
    => (cOut.ok /\ cOut.key = ToJson(cKey))

\* C2: for every canonical non-negative decimal n and every non-negative
\* integer e, decoding the encoding of {n, e} gives back exactly {n, e}.
C2_RoundTrip ==
    (cpc = "out" /\ Canonical(cKey.n.s)) => (cOut.ok /\ cOut.key = ToJson(cKey))

-----------------------------------------------------------------------------
\* Vocabulary of the claims about the handlers

WriteOps == {"register", "update", "delete"}

Mutating == {"setPublicKey", "updatePublicKey", "deletePublicKey"}

ContractCalls ==
    {"isUserRegistered", "getPublicKey", "wait"} \cup Mutating

Count(seq, S) == Cardinality({i \in DOMAIN seq : seq[i] \in S})

Made(p, call) == \E i \in DOMAIN calls[p] : calls[p][i] = call

HasReturned(p, call) == \E i \in DOMAIN returned[p] : returned[p][i] = call

Answered(p, status) == \E i \in DOMAIN res[p] : res[p][i].status = status

Body(p) == [userId |-> req[p].userId, publicKey |-> req[p].publicKey]

\* The body has no userId, no publicKey.n or no publicKey.e.
Lacks(body) ==
    \/ body.userId.t = "undefined"
    \/ body.publicKey.t = "undefined"
    \/ body.publicKey.n.t = "undefined"
    \/ body.publicKey.e.t = "undefined"

\* The awaited isUserRegistered call of request p returns in this step.
CheckReturns(p) ==
    /\ pc[p] = "isUserRegistered"
    /\ returned'[p] = Append(returned[p], "isUserRegistered")

NotRegisteredMessage(op) ==
    IF op = "get" THEN "User not registered" ELSE "User not Registered"

-----------------------------------------------------------------------------
\* C3: a Register or Update request whose body lacks userId, publicKey.n
\* or publicKey.e is answered with 400 and an error body, and makes no
\* registry call and no codec call.
C3_MissingFieldsRejected ==
    \A p \in Procs :
        (req[p].op \in {"register", "update"} /\ Lacks(Body(p)))
        => /\ pc[p] = "done"
           /\ res[p] = <<Response(400, "userId and publicKey are required",
                                  "", NoJsonKey)>>
           /\ calls[p] = <<>>

\* A Register without publicKey.n and an Update without publicKey.e, both
\* answered.
C3_Witness ==
    \E p, q \in Procs :
        /\ req[p].op = "register" /\ req[p].publicKey.n.t = "undefined"
        /\ req[q].op = "update" /\ req[q].publicKey.e.t = "undefined"
        /\ pc[p] = "done" /\ pc[q] = "done"
        /\ Answered(p, 400) /\ Answered(q, 400)

\* C4: a Register with all fields present, for an id for which
\* isUserRegistered returns true, is answered with 400; setPublicKey is
\* not invoked for it and the registry is left as it was.
C4_DuplicateRegister ==
    /\ [][\A p \in Procs :
            (CheckReturns(p) /\ req[p].op = "register"
             /\ IsUserRegistered(req[p].userId.id))
            => /\ pc'[p] = "done"
               /\ res'[p] = <<Response(400, "User ID is already registered",
                                       "", NoJsonKey)>>
               /\ calls'[p] = calls[p]
               /\ registry' = registry]_vars
    /\ [](\A p \in Procs :
            (req[p].op = "register" /\ pc[p] = "done" /\ Answered(p, 400))
            => ~Made(p, "setPublicKey"))

\* A Register of another key for a registered id was answered 400, and
\* the stored key is not the one it carried.
C4_Witness ==
    \E p \in Procs :
        /\ req[p].op = "register" /\ pc[p] = "done"
        /\ returned[p] = <<"isUserRegistered">>
        /\ Answered(p, 400)
        /\ registry[req[p].userId.id].reg
        /\ registry[req[p].userId.id].bytes # publicKeyBytes[p]

\* C5: for Fetch, Update (all fields present) and Delete, when
\* isUserRegistered returns false the answer is 404, and the request
\* invokes none of getPublicKey, updatePublicKey, deletePublicKey: the
\* registry is left as it was.
C5_UnregisteredIs404 ==
    /\ [][\A p \in Procs :
            (CheckReturns(p) /\ req[p].op \in {"get", "update", "delete"}
             /\ ~IsUserRegistered(req[p].userId.id))
            => /\ pc'[p] = "done"
               /\ res'[p] = <<Response(404, NotRegisteredMessage(req[p].op),
                                       "", NoJsonKey)>>
               /\ calls'[p] = calls[p]
               /\ registry' = registry]_vars
    /\ [](\A p \in Procs :
            (pc[p] = "done" /\ Answered(p, 404))
            => /\ req[p].op \in {"get", "update", "delete"}
               /\ calls[p] = <<"isUserRegistered">>)

\* An Update and a Delete for unregistered ids, both answered 404.
C5_Witness ==
    \E p, q \in Procs :
        /\ req[p].op = "update" /\ req[q].op = "delete"
        /\ pc[p] = "done" /\ pc[q] = "done"
        /\ Answered(p, 404) /\ Answered(q, 404)
        /\ ~registry[req[p].userId.id].reg
        /\ ~registry[req[q].userId.id].reg

\* C6: within one request a handler calls isUserRegistered at most once
\* and one mutating operation at most once, calls the mutating operation
\* only after the registration check has returned, and makes no call
\* after one has failed.
C6_AtMostOnce ==
    \A p \in Procs :
        /\ Count(calls[p], {"isUserRegistered"}) <= 1
        /\ Count(calls[p], Mutating) <= 1
        /\ Count(calls[p], {"wait"}) <= 1
        /\ Count(calls[p], Mutating) = 1 => HasReturned(p, "isUserRegistered")
        /\ thrown[p].call \in ContractCalls
           => /\ pc[p] = "done"
              /\ calls[p][Len(calls[p])] = thrown[p].call
              /\ Count(calls[p], {thrown[p].call}) = 1

\* A Register whose setPublicKey submission failed: one check, one
\* mutating call, nothing after it.
C6_Witness ==
    \E p \in Procs :
        /\ req[p].op = "register"
        /\ thrown[p].call = "setPublicKey"
        /\ calls[p] = <<"rsaJsonToDerBytes", "isUserRegistered", "setPublicKey">>

\* The mutating call of a write handler.
MutatingOf(op) ==
    CASE op = "register" -> "setPublicKey"
      [] op = "update"   -> "updatePublicKey"
      [] OTHER           -> "deletePublicKey"

\* C7: a Register, Update or Delete is answered 200 only after its
\* mutating call was submitted and its tx.wait() settled successfully; if
\* the submission or the confirmation fails it is never answered 200.
C7_SuccessAfterConfirmation ==
    \A p \in Procs :
        req[p].op \in WriteOps
        => /\ Answered(p, 200)
              => /\ HasReturned(p, MutatingOf(req[p].op))
                 /\ returned[p][Len(returned[p])] = "wait"
                 /\ thrown[p] = NoThrow
           /\ thrown[p].call \in Mutating \cup {"wait"} => ~Answered(p, 200)

\* A Register answered 200 after its confirmation, beside a Delete whose
\* confirmation failed.
C7_Witness ==
    \E p, q \in Procs :
        /\ req[p].op = "register" /\ Answered(p, 200)
        /\ returned[p] = <<"isUserRegistered", "setPublicKey", "wait">>
        /\ req[q].op = "delete" /\ thrown[q].call = "wait" /\ Answered(q, 500)

\* C8: when a contract call or a codec call throws, the request ends with
\* exactly one response, 500 with the thrown message as its error; no
\* further call is made and no success response is sent.
C8_ThrowIs500 ==
    \A p \in Procs :
        /\ Len(res[p]) <= 1
        /\ thrown[p] # NoThrow
           => /\ pc[p] = "done"
              /\ res[p] = <<Response(500, thrown[p].message, "", NoJsonKey)>>
              /\ calls[p][Len(calls[p])] = thrown[p].call
        /\ Answered(p, 500) => thrown[p] # NoThrow

\* A Fetch whose getPublicKey rejected, beside a Register whose key did
\* not encode.
C8_Witness ==
    \E p, q \in Procs :
        /\ req[p].op = "get" /\ thrown[p].call = "getPublicKey"
        /\ res[p] = <<Response(500, "missing revert data", "", NoJsonKey)>>
        /\ req[q].op = "register" /\ thrown[q].call = "rsaJsonToDerBytes"
        /\ Answered(q, 500)

\* C9 as stated: on both write paths the codec runs before the first
\* registry call, so a key that does not encode gives a 500 with no
\* registry call made.
C9_EncodeBeforeRegistry ==
    \A p \in Procs :
        req[p].op \in {"register", "update"}
        => /\ calls[p] # <<>> => calls[p][1] = "rsaJsonToDerBytes"
           /\ thrown[p].call = "rsaJsonToDerBytes"
              => calls[p] = <<"rsaJsonToDerBytes">>

\* C9 as the handlers do it: Register encodes before its first registry
\* call, and a key that does not encode gives a 500 with no registry call;
\* Update calls isUserRegistered first and encodes once that has returned,
\* before updatePublicKey, so a key that does not encode gives a 500 after
\* that one registry call and no write.
C9_EncodeOrder ==
    \A p \in Procs :
        /\ req[p].op = "register"
           => /\ calls[p] # <<>> => calls[p][1] = "rsaJsonToDerBytes"
              /\ thrown[p].call = "rsaJsonToDerBytes"
                 => calls[p] = <<"rsaJsonToDerBytes">>
        /\ req[p].op = "update"
           => /\ calls[p] # <<>> => calls[p][1] = "isUserRegistered"
              /\ Made(p, "rsaJsonToDerBytes")
                 => /\ calls[p][2] = "rsaJsonToDerBytes"
                    /\ returned[p][1] = "isUserRegistered"
              /\ Made(p, "updatePublicKey")
                 => /\ calls[p][2] = "rsaJsonToDerBytes"
                    /\ calls[p][3] = "updatePublicKey"
              /\ thrown[p].call = "rsaJsonToDerBytes"
                 => calls[p] = <<"isUserRegistered", "rsaJsonToDerBytes">>

\* An Update whose key did not encode, after its registration check, beside
\* a Register whose key did not encode, before any registry call.
C9_Witness ==
    \E p, q \in Procs :
        /\ req[p].op = "update" /\ thrown[p].call = "rsaJsonToDerBytes"
        /\ calls[p] = <<"isUserRegistered", "rsaJsonToDerBytes">>
        /\ Answered(p, 500)
        /\ req[q].op = "register" /\ thrown[q].call = "rsaJsonToDerBytes"
        /\ calls[q] = <<"rsaJsonToDerBytes">>

\* Request p is a Register for id that has passed the existence check and
\* whose write is not yet in the registry.
PassedCheck(p, id) ==
    /\ req[p].op = "register" /\ req[p].userId.id = id
    /\ pc[p] \in {"setPublicKey", "wait"}

\* The existence check of Register q returns false and q invokes
\* setPublicKey.
PassesCheck(q) == registerUserChecked(q) /\ pc'[q] = "setPublicKey"

\* C10: the gateway holds no lock over concurrent Registers of one id:
\* while one Register has passed the existence check and its write has not
\* committed, another Register for the same id can pass the check too.
C10_NoLock ==
    \A p, q \in Procs : \A id \in UserIds :
        (/\ p # q
         /\ PassedCheck(p, id)
         /\ req[q].op = "register" /\ req[q].userId.id = id
         /\ pc[q] = "isUserRegistered"
         /\ ~registry[id].reg)
        => ENABLED PassesCheck(q)

\* Two Registers for the same unregistered id have both invoked
\* setPublicKey, and neither write is in the registry yet.
C10_Race ==
    \E p, q \in Procs : \E id \in UserIds :
        /\ p # q
        /\ PassedCheck(p, id) /\ PassedCheck(q, id)
        /\ Made(p, "setPublicKey") /\ Made(q, "setPublicKey")
        /\ returned[p][1] = "isUserRegistered"
        /\ returned[q][1] = "isUserRegistered"
        /\ ~registry[id].reg

-----------------------------------------------------------------------------
\* C1, under SeqSpec: the requests of one client, one at a time.

\* The Fetch of the client has been answered.
Fetched == req["r1"].op = "get" /\ pc["r1"] = "done"

\* The last write answered 200 for the fetched id.
Last == lastOK[req["r1"].userId.id]

\* A registry call of the Fetch rejected.
FetchRejected == thrown["r1"].call \in {"isUserRegistered", "getPublicKey"}

\* The key as the codec reads it: the modulus as the canonical decimal
\* string of its integer, the exponent as the integer jsbn reads from
\* e.toString().
AsRead(key) ==
    [n |-> NatToRadix(BigInteger(key.n.s), 10),
     e |-> [m |-> BigInteger(NumberToString(key.e)), z |-> 0]]

====
